---- MODULE Spec2Model ----
(***************************************************************************)
(* State-transition generator of the layer-2 rollup node                   *)
(* (crates/generator/src/generator.rs): apply_state_transition, execute    *)
(* and load_backend, run against an Account State, a backend registry and  *)
(* a sandboxed program whose storage accesses go through the syscall       *)
(* bridge into a RunResult journal.                                        *)
(***************************************************************************)
EXTENDS Integers, Sequences, FiniteSets, TLC

(* ---------------------------------------------------------------------- *)
(* Bounds                                                                  *)
(* ---------------------------------------------------------------------- *)
\* transactions carried by the body of one block
MaxTxs == 2
\* length of the withdrawal list and of the deposition list of one call
MaxReqs == 1
\* storage accesses one sandboxed run makes through the syscall bridge
MaxOps == 2
\* calls made on one Generator, one after the other
MaxCalls == 3
\* calls of insert_to_sql on one database
MaxSqlCalls == 3
\* block numbers the layer-2 blocks handed to insert_to_sql carry, besides
\* the largest i64
MaxBlockNumber == 2

\* Option values: None is the empty set, Some(x) the singleton
None == {}
Some(x) == {x}
Unwrap(o) == CHOOSE x \in o : TRUE

(* ---------------------------------------------------------------------- *)
(* u32 and H256 values                                                     *)
(* A u32 is kept at its full width as two 16-bit limbs <<high, low>>.      *)
(* An H256 is its first four bytes (a little-endian u32) and the value of  *)
(* the remaining 28 bytes.                                                 *)
(* ---------------------------------------------------------------------- *)
LimbMax == (2 ^ 16) - 1

U32Zero == <<0, 0>>
U32One == <<0, 1>>
U32Max == <<LimbMax, LimbMax>>

\* nonce + 1 on u32 in a build without overflow checks: wraps at 2^32
WrappingInc(n) ==
    IF n[2] < LimbMax THEN <<n[1], n[2] + 1>>
    ELSE IF n[1] < LimbMax THEN <<n[1] + 1, 0>>
    ELSE U32Zero

\* H256::from_u32: the u32 in the first four bytes, zero elsewhere
H256_from_u32(n) == [w0 |-> n, rest |-> 0]

\* H256::to_u32: the first four bytes, the rest is dropped
H256_to_u32(h) == h.w0

H256_zero == [w0 |-> U32Zero, rest |-> 0]

\* a u128 amount small enough to fit the low limb, as stored in a cell
H256_from_u128(a) == [w0 |-> <<0, a>>, rest |-> 0]

H256_to_u128(h) == h.w0[2]

(* ---------------------------------------------------------------------- *)
(* Accounts, cells, scripts and the backend registry                       *)
(* ---------------------------------------------------------------------- *)
AccountIds == 0..4

\* accounts that send transactions in the checked runs
Senders == {0, 1}

GW_ACCOUNT_NONCE == "nonce"
GW_ACCOUNT_BALANCE == "balance"
GW_ACCOUNT_SLOT == "slot"

Fields == {GW_ACCOUNT_NONCE, GW_ACCOUNT_BALANCE, GW_ACCOUNT_SLOT}

build_account_field_key(id, field) == <<id, field>>

Keys == {build_account_field_key(id, f) : id \in AccountIds, f \in Fields}

CodeHashes == {"sudt_code", "unknown_code"}

\* the script hash an account without a script has
ZeroScriptHash == "zero"

\* script hash -> script held by the code store
InitScripts ==
    [h \in {"s0", "s1", "s2", "s3"} |->
        CASE h = "s0" -> [hash_type |-> "Data", code_hash |-> "sudt_code"]
          [] h = "s1" -> [hash_type |-> "Data", code_hash |-> "unknown_code"]
          [] h = "s2" -> [hash_type |-> "Type", code_hash |-> "sudt_code"]
          [] h = "s3" -> [hash_type |-> "Type", code_hash |-> "unknown_code"]]

\* account id -> script hash; account 4 has no script
InitScriptHashes ==
    [id \in AccountIds |->
        CASE id = 0 -> "s0"
          [] id = 1 -> "s1"
          [] id = 2 -> "s2"
          [] id = 3 -> "s3"
          [] OTHER -> ZeroScriptHash]

\* code hash -> backend (the generator program bytes) registered at start
InitBackends == [h \in {"sudt_code"} |-> [code_hash |-> h, generator |-> "sudt_generator"]]

VARIABLES
    state,          \* Account State: cell key -> H256
    script_hashes,  \* Account State: account id -> script hash
    scripts,        \* code store: script hash -> script
    backend_manage, \* Generator.backend_manage: code hash -> Backend
    pc,             \* position of the current call
    args,           \* StateTransitionArgs of the current call
    tx_index,       \* loop index of apply_state_transition
    raw_tx,         \* the transaction the loop is at
    challenge_context, \* the StartChallenge built for raw_tx
    run_result,     \* the RunResult execute returned for raw_tx
    exec_env,       \* what the last call of execute met (program run, faults)
    outcome,        \* what the call returned
    block_txs,      \* transactions of the block the loop has reached so far
    log,            \* operations performed on the Account State, in order
    state_at_call,  \* Account State when the call started
    state_after_requests, \* Account State when the transaction loop started
    state_before_tx, \* Account State when raw_tx was reached
    calls,          \* calls on the Generator that have returned
    blocks,         \* SQL mirror: committed rows of the blocks table
    transactions,   \* SQL mirror: committed rows of the transactions table
    proc,           \* SQL mirror: the insert_to_sql call of each task
    sql_calls       \* SQL mirror: calls of insert_to_sql started so far

\* the SQL mirror (readonly-node), which the Generator never touches
sql_vars == <<blocks, transactions, proc, sql_calls>>

\* the Generator and the Account State, which the SQL mirror never touches
gen_vars == <<state, script_hashes, scripts, backend_manage, pc, args, tx_index,
              raw_tx, challenge_context, run_result, exec_env, outcome, block_txs,
              log, state_at_call, state_after_requests, state_before_tx, calls>>

vars == <<state, script_hashes, scripts, backend_manage, pc, args, tx_index,
          raw_tx, challenge_context, run_result, exec_env, outcome, block_txs,
          log, state_at_call, state_after_requests, state_before_tx, calls,
          blocks, transactions, proc, sql_calls>>


(* ---------------------------------------------------------------------- *)
(* Account State and code store (State, StateExt, CodeStore traits)        *)
(* ---------------------------------------------------------------------- *)
\* m with key k set to v (HashMap::insert)
MapInsert(m, k, v) == [x \in (DOMAIN m) \cup {k} |-> IF x = k THEN v ELSE m[x]]

EmptyMap == [x \in {} |-> H256_zero]

\* State::get_raw: an absent cell reads as the zero value
get_raw(st, key) == IF key \in DOMAIN st THEN st[key] ELSE H256_zero

\* State::get_nonce
get_nonce(st, id) == H256_to_u32(get_raw(st, build_account_field_key(id, GW_ACCOUNT_NONCE)))

\* State::get_script_hash
get_script_hash(sh, id) == IF id \in DOMAIN sh THEN sh[id] ELSE ZeroScriptHash

\* CodeStore::get_script
get_script(sc, hash) == IF hash \in DOMAIN sc THEN Some(sc[hash]) ELSE None

\* State::get_account_id_by_script_hash
get_account_id_by_script_hash(sh, hash) ==
    IF \E id \in DOMAIN sh : sh[id] = hash
    THEN Some(CHOOSE id \in DOMAIN sh : sh[id] = hash)
    ELSE None

\* BackendManage::get_backend
get_backend(bm, code_hash) == IF code_hash \in DOMAIN bm THEN Some(bm[code_hash]) ELSE None

StateOk(st) == [ok |-> TRUE, state |-> st, error |-> "None"]
StateErr(st, e) == [ok |-> FALSE, state |-> st, error |-> e]

\* StateExt::apply_withdrawal_requests: debit each request in list order;
\* a request that exceeds the balance fails the whole list
RECURSIVE apply_withdrawal_requests(_, _, _)
apply_withdrawal_requests(st, sh, reqs) ==
    IF reqs = <<>> THEN StateOk(st)
    ELSE LET req == Head(reqs)
             found == get_account_id_by_script_hash(sh, req.account_script_hash)
             id == Unwrap(found)
             key == build_account_field_key(id, GW_ACCOUNT_BALANCE)
             balance == H256_to_u128(get_raw(st, key))
         IN  IF found = None THEN StateErr(st, "MissingKey")
             ELSE IF balance < req.amount THEN StateErr(st, "AmountOverflow")
             ELSE apply_withdrawal_requests(
                      [st EXCEPT ![key] = H256_from_u128(balance - req.amount)],
                      sh, Tail(reqs))

\* StateExt::apply_deposition_requests: credit each request in list order
RECURSIVE apply_deposition_requests(_, _, _)
apply_deposition_requests(st, sh, reqs) ==
    IF reqs = <<>> THEN StateOk(st)
    ELSE LET req == Head(reqs)
             found == get_account_id_by_script_hash(sh, req.script)
             id == Unwrap(found)
             key == build_account_field_key(id, GW_ACCOUNT_BALANCE)
             balance == H256_to_u128(get_raw(st, key))
         IN  IF found = None THEN StateErr(st, "MissingKey")
             ELSE apply_deposition_requests(
                      [st EXCEPT ![key] = H256_from_u128(balance + req.amount)],
                      sh, Tail(reqs))

\* StateExt::apply_run_result: every entry of the write set goes to its cell
apply_run_result(st, rr) ==
    [k \in DOMAIN st |-> IF k \in DOMAIN rr.write_values THEN rr.write_values[k] ELSE st[k]]

(* ---------------------------------------------------------------------- *)
(* Syscall bridge (L2Syscalls) and the sandboxed run                       *)
(* ---------------------------------------------------------------------- *)
\* RunResult::default()
RunResultDefault == [read_values |-> EmptyMap, write_values |-> EmptyMap]

\* load of a cell: the run sees its own earlier write, else the state; the
\* value is journaled the first time the key is read
sys_load(st, rr, key) ==
    LET value == IF key \in DOMAIN rr.write_values THEN rr.write_values[key]
                 ELSE get_raw(st, key)
    IN  IF key \in DOMAIN rr.read_values THEN rr
        ELSE [rr EXCEPT !.read_values = MapInsert(rr.read_values, key, value)]

\* store of a cell: journaled only, the last value wins
sys_store(rr, key, value) ==
    [rr EXCEPT !.write_values = MapInsert(rr.write_values, key, value)]

\* the program run of one transaction: its storage accesses in order.
\* A store outside the executing account, or a load outside the executing
\* account and the sender, is rejected and traps the run.
RECURSIVE RunProgram(_, _, _, _)
RunProgram(st, tx, ops, rr) ==
    IF ops = <<>> THEN [trap |-> FALSE, result |-> rr]
    ELSE LET op == Head(ops) IN
         IF op.kind = "store"
         THEN IF op.key[1] # tx.to_id
              THEN [trap |-> TRUE, result |-> rr]
              ELSE RunProgram(st, tx, Tail(ops), sys_store(rr, op.key, op.value))
         ELSE IF op.key[1] \notin {tx.to_id, tx.from_id}
              THEN [trap |-> TRUE, result |-> rr]
              ELSE RunProgram(st, tx, Tail(ops), sys_load(st, rr, op.key))

(* ---------------------------------------------------------------------- *)
(* Generator                                                               *)
(* ---------------------------------------------------------------------- *)
\* load_backend that forgets the hash-type test
load_backend_any_hash_type(sh, sc, bm, account_id) ==
    LET script_hash == get_script_hash(sh, account_id)
        script == get_script(sc, script_hash)
    IN  IF script = None THEN None
        ELSE get_backend(bm, Unwrap(script).code_hash)

\* Generator::load_backend
load_backend(sh, sc, bm, account_id) ==
    LET script_hash == get_script_hash(sh, account_id)
        script == get_script(sc, script_hash)
    IN  IF script = None THEN None
        ELSE IF Unwrap(script).hash_type = "Data"
             THEN get_backend(bm, Unwrap(script).code_hash)
             ELSE None

\* get_block_info
get_block_info(raw_block) ==
    [aggregator_id |-> raw_block.aggregator_id,
     number |-> raw_block.number,
     timestamp |-> raw_block.timestamp]

\* RawL2Block::hash: a digest of the raw block
RawBlockHash(raw_block) == <<"hash", raw_block>>

\* a challenge context that does not take the loop index
StartChallengeFirstIndex(block_hash, block_number, index) ==
    [block_hash |-> block_hash, block_number |-> block_number, tx_index |-> 0]

\* StartChallenge::new_builder() ... build()
StartChallenge(block_hash, block_number, index) ==
    [block_hash |-> block_hash, block_number |-> block_number, tx_index |-> index]

ExecOk(rr) == [kind |-> "Ok", run_result |-> Some(rr), error |-> None]
ExecErr(e) == [kind |-> "Err", run_result |-> None, error |-> Some(e)]
ExecPanic == [kind |-> "Panic", run_result |-> None, error |-> None]

\* TransactionError::Backend { account_id }
BackendError(account_id) == [type |-> "Backend", account_id |-> account_id]

\* TransactionError::InvalidExitCode(code)
InvalidExitCode(code) == [type |-> "InvalidExitCode", code |-> code]

\* a Nonce error with the two nonces in each other's place
NonceErrorSwapped(expected, actual) ==
    [type |-> "Nonce", expected |-> actual, actual |-> expected]

\* TransactionError::Nonce { expected, actual }
NonceError(expected, actual) == [type |-> "Nonce", expected |-> expected, actual |-> actual]

\* Generator::execute takes env, what the call meets outside the Generator:
\* the storage accesses and exit code of the program (ops, exit), a fault of
\* the machine (vm_error), a failing Account State read (state_error) and
\* whether the build checks integer overflow (overflow_checks).

\* run_machine that names the sender in the Backend error
run_machine_names_sender(st, sh, sc, bm, tx, env) ==
    LET account_id == tx.from_id
        backend == load_backend(sh, sc, bm, tx.to_id)
        run == RunProgram(st, tx, env.ops, RunResultDefault)
    IN  IF env.state_error = "get_script_hash"
        THEN ExecErr([type |-> "State", error |-> "Store"])
        ELSE IF backend = None
        THEN ExecErr(BackendError(account_id))
        ELSE IF env.vm_error \/ run.trap
        THEN ExecErr([type |-> "VM"])
        ELSE IF env.exit # 0
        THEN ExecErr(InvalidExitCode(env.exit))
        ELSE ExecOk(run.result)

\* run_machine that does not look at the exit code
run_machine_ignores_exit(st, sh, sc, bm, tx, env) ==
    LET account_id == tx.to_id
        backend == load_backend(sh, sc, bm, account_id)
        run == RunProgram(st, tx, env.ops, RunResultDefault)
    IN  IF env.state_error = "get_script_hash"
        THEN ExecErr([type |-> "State", error |-> "Store"])
        ELSE IF backend = None
        THEN ExecErr(BackendError(account_id))
        ELSE IF env.vm_error \/ run.trap
        THEN ExecErr([type |-> "VM"])
        ELSE ExecOk(run.result)

\* run_machine that starts from a journal with an entry left by another run
run_machine_stale_journal(st, sh, sc, bm, tx, env) ==
    LET account_id == tx.to_id
        backend == load_backend(sh, sc, bm, account_id)
        stale == [read_values |-> EmptyMap,
                  write_values |-> MapInsert(EmptyMap,
                                             build_account_field_key(1, GW_ACCOUNT_SLOT),
                                             H256_from_u32(U32One))]
        run == RunProgram(st, tx, env.ops, stale)
    IN  IF env.state_error = "get_script_hash"
        THEN ExecErr([type |-> "State", error |-> "Store"])
        ELSE IF backend = None
        THEN ExecErr(BackendError(account_id))
        ELSE IF env.vm_error \/ run.trap
        THEN ExecErr([type |-> "VM"])
        ELSE IF env.exit # 0
        THEN ExecErr(InvalidExitCode(env.exit))
        ELSE ExecOk(run.result)

\* execute, first block: a fresh RunResult, the backend of the receiver, the
\* program run and its exit code
run_machine(st, sh, sc, bm, tx, env) ==
    LET account_id == tx.to_id
        backend == load_backend(sh, sc, bm, account_id)
        run == RunProgram(st, tx, env.ops, RunResultDefault)
    IN  IF env.state_error = "get_script_hash"
        THEN ExecErr([type |-> "State", error |-> "Store"])
        ELSE IF backend = None
        THEN ExecErr(BackendError(account_id))
        ELSE IF env.vm_error \/ run.trap
        THEN ExecErr([type |-> "VM"])
        ELSE IF env.exit # 0
        THEN ExecErr(InvalidExitCode(env.exit))
        ELSE ExecOk(run.result)

\* execute, second block: set nonce / increase nonce on the RunResult rr
set_nonce(st, tx, rr, env) ==
    LET sender_id == tx.from_id
        nonce == get_nonce(st, sender_id)
        nonce_raw_key == build_account_field_key(sender_id, GW_ACCOUNT_NONCE)
        seeded == IF nonce_raw_key \notin DOMAIN rr.read_values
                  THEN [rr EXCEPT !.read_values =
                           MapInsert(rr.read_values, nonce_raw_key,
                                     H256_from_u32(nonce))]
                  ELSE rr
        increased == [seeded EXCEPT !.write_values =
                         MapInsert(seeded.write_values, nonce_raw_key,
                                   H256_from_u32(WrappingInc(nonce)))]
    IN  IF env.state_error = "get_nonce"
        THEN ExecErr([type |-> "State", error |-> "Store"])
        ELSE IF nonce = U32Max /\ env.overflow_checks
        THEN ExecPanic
        ELSE ExecOk(increased)

\* Generator::execute
execute(st, sh, sc, bm, block_info, tx, env) ==
    LET ran == run_machine(st, sh, sc, bm, tx, env)
    IN  IF ran.kind # "Ok" THEN ran
        ELSE set_nonce(st, tx, Unwrap(ran.run_result), env)

(* ---------------------------------------------------------------------- *)
(* Inputs                                                                  *)
(* ---------------------------------------------------------------------- *)
SeqsUpTo(S, n) == UNION {[1..k -> S] : k \in 0..n}

\* nonces carried by transactions
TxNonces == {U32Zero, U32One, U32Max}

\* nonces account 0 starts with (every other account starts at zero)
InitNonces == {U32Zero, U32Max}

\* balances account 0 starts with (every other account starts with none)
InitBalances == {0, 1}

RawL2Transactions == [from_id : Senders, to_id : AccountIds, nonce : TxNonces]

\* requests on the balance of account 0
WithdrawalRequests == [account_script_hash : {"s0"}, amount : {1}]

DepositionRequests == [script : {"s0"}, amount : {1}]

\* the value a program stores: non-zero in and above the first four bytes
ProgValue == [w0 |-> U32One, rest |-> 1]

\* exit codes of a run (i8)
ExitCodes == {0, 1, -1}

\* storage accesses a program run for tx makes
ProgOps(tx) ==
    {[kind |-> "load", key |-> build_account_field_key(tx.from_id, GW_ACCOUNT_NONCE),
      value |-> H256_zero],
     [kind |-> "store", key |-> build_account_field_key(tx.from_id, GW_ACCOUNT_NONCE),
      value |-> ProgValue],
     [kind |-> "load", key |-> build_account_field_key(tx.to_id, GW_ACCOUNT_SLOT),
      value |-> H256_zero],
     [kind |-> "store", key |-> build_account_field_key(tx.to_id, GW_ACCOUNT_SLOT),
      value |-> ProgValue]}

\* what one call of execute on tx in state st can meet: a run that exits
\* with 0 (the build profile shows only where the sender's nonce is the
\* largest u32), a run that exits with another code, a machine fault, and a
\* failing read of the Account State
ExecEnvs(st, tx) ==
    [ops : SeqsUpTo(ProgOps(tx), MaxOps), exit : {0}, vm_error : {FALSE},
     state_error : {"None"},
     overflow_checks : IF get_nonce(st, tx.from_id) = U32Max THEN BOOLEAN ELSE {FALSE}]
    \cup
    [ops : SeqsUpTo(ProgOps(tx), 1), exit : ExitCodes \ {0}, vm_error : {FALSE},
     state_error : {"None"}, overflow_checks : {FALSE}]
    \cup
    [ops : {<<>>}, exit : {0}, vm_error : {TRUE},
     state_error : {"None"}, overflow_checks : {FALSE}]
    \cup
    [ops : {<<>>}, exit : {0}, vm_error : {FALSE},
     state_error : {"get_script_hash", "get_nonce"}, overflow_checks : {FALSE}]

RawL2Blocks ==
    [number : {3}, aggregator_id : {0}, timestamp : {9},
     submit_transactions : {None} \cup {Some([tx_count |-> n]) : n \in 0..MaxTxs}]

\* a block: its raw part and the number of transactions in its body; a raw
\* part that declares transactions declares as many as the body carries.
\* The transactions themselves are read one by one by the loop: the element
\* at tx_index is drawn when the iterator yields it (CheckNonce) and kept in
\* block_txs.
L2Blocks ==
    {b \in [raw : RawL2Blocks, transactions_len : 0..MaxTxs] :
        \/ b.raw.submit_transactions = None
        \/ Unwrap(b.raw.submit_transactions).tx_count = b.transactions_len}

StateTransitionArgs ==
    [l2block : L2Blocks,
     deposition_requests : SeqsUpTo(DepositionRequests, MaxReqs),
     withdrawal_requests : SeqsUpTo(WithdrawalRequests, MaxReqs)]

NoArgs == [l2block |-> [raw |-> [number |-> 0, aggregator_id |-> 0, timestamp |-> 0,
                                 submit_transactions |-> None],
                        transactions_len |-> 0],
           deposition_requests |-> <<>>, withdrawal_requests |-> <<>>]

NoOutcome == [kind |-> "None"]

(* ---------------------------------------------------------------------- *)
(* SQL mirror (readonly-node/src/web3/sql_indexer.rs): values              *)
(* A block number (u64 in the block, i64 in the row the SELECT returns) is *)
(* kept at its full width as four 16-bit limbs, high limb first.           *)
(* ---------------------------------------------------------------------- *)
Num64(n) == <<0, 0, 0, n>>

I64Max == <<(2 ^ 15) - 1, LimbMax, LimbMax, LimbMax>>

\* (row + 1) as u64 in a build without overflow checks: i64::MAX + 1 wraps
\* to i64::MIN, whose bits read as a u64 are 2^63
WrappingIncAsU64(n) ==
    IF n[4] < LimbMax THEN <<n[1], n[2], n[3], n[4] + 1>>
    ELSE IF n[3] < LimbMax THEN <<n[1], n[2], n[3] + 1, 0>>
    ELSE IF n[2] < LimbMax THEN <<n[1], n[2] + 1, 0, 0>>
    ELSE <<n[1] + 1, 0, 0, 0>>

\* the order of the numbers (ORDER BY number)
NumLess(a, b) ==
    \/ a[1] < b[1]
    \/ a[1] = b[1] /\ a[2] < b[2]
    \/ a[1] = b[1] /\ a[2] = b[2] /\ a[3] < b[3]
    \/ a[1] = b[1] /\ a[2] = b[2] /\ a[3] = b[3] /\ a[4] < b[4]

\* the tasks that call insert_to_sql on the one pool
Tasks == {1, 2}

\* a <= b on the numbers
NumLeq(a, b) == a = b \/ NumLess(a, b)

\* the account of the CKB sUDT (gw_common::builtins)
CKB_SUDT_ACCOUNT_ID == 1

\* code hashes the filter compares the receiver's script with
CODE_HASH_VALIDATOR == "polyjuice_code"

SUDT_VALIDATOR_CODE_HASH == "sudt_validator_code"

\* chain.store: account id -> script hash. Account 0 is a user, 1 the CKB
\* sUDT, 2 a polyjuice contract, 3 another sUDT; account 4 has no script
ChainScriptHashes ==
    [id \in 0..4 |->
        CASE id = 0 -> "c0"
          [] id = 1 -> "c1"
          [] id = 2 -> "c2"
          [] id = 3 -> "c3"
          [] OTHER -> ZeroScriptHash]

\* chain.store: script hash -> script
ChainScripts ==
    [h \in {"c0", "c1", "c2", "c3"} |->
        CASE h = "c0" -> [code_hash |-> "user_lock_code", args |-> "a0"]
          [] h = "c1" -> [code_hash |-> SUDT_VALIDATOR_CODE_HASH, args |-> "a1"]
          [] h = "c2" -> [code_hash |-> CODE_HASH_VALIDATOR, args |-> "a2"]
          [] OTHER -> [code_hash |-> SUDT_VALIDATOR_CODE_HASH, args |-> "a3"]]

\* accounts whose read of the script hash fails in the store
ChainUnreadable == {5}

\* the arguments of a layer-2 transaction, by what the decoders make of
\* them: polyjuice arguments (a call, a creation, a gas price or a value
\* above 96 bits), sUDT arguments (transfer, query); any other value, such
\* as "undecodable", is bytes that neither PolyjuiceArgs::decode nor
\* SUDTArgs::from_slice accepts
PolyjuiceArgsKinds == {"call", "create", "gas_price_2_96", "value_2_96"}

SudtArgsKinds == {"transfer", "query"}

\* a raw layer-2 transaction
L2Tx(from_id, to_id, nonce, tx_args) ==
    [from_id |-> from_id, to_id |-> to_id, nonce |-> nonce, args |-> tx_args]

\* blake2b_256 of the raw transaction
SqlTxHash(l2_transaction) == <<"blake2b", l2_transaction>>

SqlBlockNumbers == {Num64(n) : n \in 0..MaxBlockNumber} \cup {I64Max}

\* block timestamps: 1600000000, and 2^62, which chrono has no date for
TimestampWithDate == <<0, 0, 24414, 4096>>

TimestampWithoutDate == <<2 ^ 14, 0, 0, 0>>

\* the largest and the smallest (as u64 bits of a negative i64) number of
\* seconds NaiveDateTime::from_timestamp takes: 8210266876799 and
\* -8334601228800
ChronoMax == <<0, 1911, 39434, 27519>>

ChronoMinAsU64 == <<65535, 63595, 29453, 60928>>

\* NaiveDateTime::from_timestamp(epoch_time as i64, 0) has a value
TimestampInRange(epoch_time) ==
    \/ NumLeq(epoch_time, ChronoMax)
    \/ NumLeq(ChronoMinAsU64, epoch_time)

\* bodies of the blocks handed to insert_to_sql. The first four pass the
\* filter: no transaction, one that becomes a row, a transfer ahead of one
\* that becomes a row, one that is skipped between two that become rows.
\* The others end the filter: polyjuice or sUDT arguments that do not
\* decode, a receiver or a sender without script, a receiver or a sender
\* the store cannot read, a gas price or a value above 96 bits.
SqlBodies ==
    {<<>>,
     <<L2Tx(0, 2, 0, "call")>>,
     <<L2Tx(0, 1, 0, "transfer"), L2Tx(0, 2, 1, "call")>>,
     <<L2Tx(0, 2, 0, "call"), L2Tx(0, 3, 1, "query"), L2Tx(0, 2, 2, "create")>>,
     <<L2Tx(0, 2, 0, "call"), L2Tx(0, 2, 1, "undecodable")>>,
     <<L2Tx(0, 2, 0, "call"), L2Tx(0, 1, 1, "undecodable")>>,
     <<L2Tx(0, 4, 0, "call")>>,
     <<L2Tx(4, 2, 0, "call")>>,
     <<L2Tx(0, 5, 0, "call")>>,
     <<L2Tx(5, 2, 0, "call")>>,
     <<L2Tx(0, 2, 0, "gas_price_2_96")>>,
     <<L2Tx(0, 2, 0, "value_2_96")>>}

\* a block: the raw block holds the number, the timestamp, the aggregator
\* and the commitment to the transactions the block submits
L2BlockOf(number, timestamp, l2_transactions) ==
    [raw |-> [number |-> number,
              timestamp |-> timestamp,
              aggregator_id |-> 0,
              submit_transactions |->
                  IF l2_transactions = <<>> THEN None ELSE Some(l2_transactions)],
     transactions |-> l2_transactions]

\* the blocks handed to insert_to_sql: every body at the first timestamp,
\* the empty body at the second
SqlL2Blocks ==
    {L2BlockOf(n, TimestampWithDate, body) : n \in SqlBlockNumbers, body \in SqlBodies}
        \cup {L2BlockOf(n, TimestampWithoutDate, <<>>) : n \in SqlBlockNumbers}

\* the layer-1 transaction: no witness, a first witness without output
\* type, or a first witness whose output type carries the block
L1Transactions ==
    {[witnesses |-> <<>>], [witnesses |-> <<[output_type |-> None]>>]}
        \cup {[witnesses |-> <<[output_type |-> Some(b)]>>] : b \in SqlL2Blocks}

NoL2Block == L2BlockOf(Num64(0), <<0, 0, 0, 0>>, <<>>)

\* blake2b_256 of the raw block
SqlBlockHash(l2_block) == <<"blake2b", l2_block.raw>>

\* extract_l2_block
extract_l2_block(l1_transaction) ==
    IF l1_transaction.witnesses = <<>>
    THEN [ok |-> FALSE, l2_block |-> NoL2Block]
    ELSE IF l1_transaction.witnesses[1].output_type = None
    THEN [ok |-> FALSE, l2_block |-> NoL2Block]
    ELSE [ok |-> TRUE, l2_block |-> Unwrap(l1_transaction.witnesses[1].output_type)]

\* chain.store.get_script(&chain.store.get_script_hash(id)?)
ChainScriptOf(id) == get_script(ChainScripts, get_script_hash(ChainScriptHashes, id))

\* filter_web3_transactions: the loop over the block's transactions from
\* position i on, with the running tx_index and the rows gathered so far.
\* A failed ? ends it with Err, a failed unwrap with Panic.
RECURSIVE filter_from(_, _, _, _)
filter_from(l2_block, i, index, web3_transactions) ==
    IF i > Len(l2_block.transactions)
    THEN [status |-> "Ok", web3_transactions |-> web3_transactions]
    ELSE LET l2_transaction == l2_block.transactions[i]
             to_id == l2_transaction.to_id
             from_id == l2_transaction.from_id
             Err == [status |-> "Err", web3_transactions |-> <<>>]
             Panic == [status |-> "Panic", web3_transactions |-> <<>>]
         IN
         IF to_id \in ChainUnreadable THEN Err
         ELSE IF ChainScriptOf(to_id) = None THEN Panic
         ELSE IF Unwrap(ChainScriptOf(to_id)).code_hash = CODE_HASH_VALIDATOR
         THEN IF from_id \in ChainUnreadable THEN Err
              ELSE IF ChainScriptOf(from_id) = None THEN Panic
              ELSE IF l2_transaction.args \notin PolyjuiceArgsKinds THEN Err
              ELSE IF l2_transaction.args \in {"gas_price_2_96", "value_2_96"}
              THEN Panic
              ELSE filter_from(l2_block, i + 1, index + 1,
                               Append(web3_transactions,
                                      [hash |-> SqlTxHash(l2_transaction),
                                       transaction_index |-> index,
                                       block_number |-> l2_block.raw.number,
                                       block_hash |-> SqlBlockHash(l2_block),
                                       from_address |->
                                           Unwrap(ChainScriptOf(from_id)).args,
                                       nonce |-> l2_transaction.nonce]))
         ELSE IF /\ to_id = CKB_SUDT_ACCOUNT_ID
                 /\ Unwrap(ChainScriptOf(to_id)).code_hash = SUDT_VALIDATOR_CODE_HASH
         THEN IF l2_transaction.args \notin SudtArgsKinds THEN Err
              ELSE filter_from(l2_block, i + 1, index + 1, web3_transactions)
         ELSE filter_from(l2_block, i + 1, index, web3_transactions)

filter_web3_transactions(l2_block) == filter_from(l2_block, 1, 0, <<>>)

\* the row build_web3_block makes of a block whose timestamp has a date
Web3BlockOf(l2_block) ==
    [number |-> l2_block.raw.number,
     hash |-> SqlBlockHash(l2_block),
     timestamp |-> l2_block.raw.timestamp,
     miner |-> l2_block.raw.aggregator_id]

\* build_web3_block: NaiveDateTime::from_timestamp panics on a number of
\* seconds out of its range
build_web3_block(l2_block, web3_transactions) ==
    IF TimestampInRange(l2_block.raw.timestamp)
    THEN [status |-> "Ok", web3_block |-> Web3BlockOf(l2_block)]
    ELSE [status |-> "Panic", web3_block |-> Web3BlockOf(NoL2Block)]

\* SELECT number FROM blocks ORDER BY number DESC LIMIT 1 over the committed
\* rows
SelectHighest(rows) ==
    IF rows = <<>> THEN None
    ELSE LET numbers == {rows[n].number : n \in DOMAIN rows}
         IN  Some(CHOOSE m \in numbers : \A k \in numbers : ~NumLess(m, k))

\* a task that is not inside insert_to_sql
IdleTask ==
    [pc |-> "idle", l2_block |-> NoL2Block, row |-> None,
     web3_transactions |-> <<>>, tx_blocks |-> <<>>, tx_transactions |-> <<>>,
     result |-> "None", ended_at |-> "idle",
     blocks_at_call |-> <<>>, transactions_at_call |-> <<>>]

SqlInit ==
    /\ blocks = <<>>
    /\ transactions = <<>>
    /\ proc = [p \in Tasks |-> IdleTask]
    /\ sql_calls = 0

(* ---------------------------------------------------------------------- *)
(* Initial state                                                           *)
(* ---------------------------------------------------------------------- *)
Init ==
    /\ \E n \in InitNonces, b \in InitBalances :
          state = [k \in Keys |->
                     IF k = build_account_field_key(0, GW_ACCOUNT_NONCE)
                     THEN H256_from_u32(n)
                     ELSE IF k = build_account_field_key(0, GW_ACCOUNT_BALANCE)
                     THEN H256_from_u128(b)
                     ELSE H256_zero]
    /\ script_hashes = InitScriptHashes
    /\ scripts = InitScripts
    /\ backend_manage = InitBackends
    /\ pc = "idle"
    /\ args = NoArgs
    /\ tx_index = 0
    /\ raw_tx = None
    /\ challenge_context = None
    /\ run_result = None
    /\ exec_env = None
    /\ outcome = NoOutcome
    /\ block_txs = <<>>
    /\ log = <<>>
    /\ state_at_call = state
    /\ state_after_requests = state
    /\ state_before_tx = state
    /\ calls = 0
    /\ SqlInit

Event(op, i) == [op |-> op, tx_index |-> i]

(* ---------------------------------------------------------------------- *)
(* apply_state_transition                                                  *)
(* ---------------------------------------------------------------------- *)
\* a call that goes to the depositions without the withdrawals
CallSkipsWithdrawals(a) ==
    /\ pc = "idle"
    /\ calls < MaxCalls
    /\ pc' = "deposit"
    /\ args' = a
    /\ state_at_call' = state
    /\ UNCHANGED <<calls, sql_vars>>
    /\ UNCHANGED <<state, script_hashes, scripts, backend_manage, tx_index, raw_tx,
                   challenge_context, run_result, exec_env, outcome, block_txs, log,
                   state_after_requests, state_before_tx>>

\* a caller invokes apply_state_transition(state, a)
Call(a) ==
    /\ pc = "idle"
    /\ calls < MaxCalls
    /\ pc' = "withdraw"
    /\ args' = a
    /\ state_at_call' = state
    /\ UNCHANGED <<calls, sql_vars>>
    /\ UNCHANGED <<state, script_hashes, scripts, backend_manage, tx_index, raw_tx,
                   challenge_context, run_result, exec_env, outcome, block_txs, log,
                   state_after_requests, state_before_tx>>

\* withdrawals whose error is dropped: the call goes on to the depositions
ApplyWithdrawalsDropsError(fault) ==
    /\ pc = "withdraw"
    /\ fault => args.withdrawal_requests # <<>>
    /\ LET r == IF fault THEN StateErr(state, "Store")
                ELSE apply_withdrawal_requests(state, script_hashes,
                                               args.withdrawal_requests)
       IN  /\ log' = Append(log, Event("apply_withdrawal_requests", 0))
           /\ state' = IF r.ok THEN r.state ELSE state
           /\ pc' = "deposit"
           /\ outcome' = outcome
    /\ UNCHANGED <<calls, sql_vars>>
    /\ UNCHANGED <<script_hashes, scripts, backend_manage, args, tx_index, raw_tx,
                   challenge_context, run_result, exec_env, block_txs, state_at_call,
                   state_after_requests, state_before_tx>>

\* state.apply_withdrawal_requests(...)?  (the state is touched, and so can
\* fail in its storage, once per request)
ApplyWithdrawals(fault) ==
    /\ pc = "withdraw"
    /\ fault => args.withdrawal_requests # <<>>
    /\ LET r == IF fault THEN StateErr(state, "Store")
                ELSE apply_withdrawal_requests(state, script_hashes,
                                               args.withdrawal_requests)
       IN  /\ log' = Append(log, Event("apply_withdrawal_requests", 0))
           /\ IF r.ok
              THEN /\ state' = r.state
                   /\ pc' = "deposit"
                   /\ outcome' = outcome
              ELSE /\ state' = state
                   /\ pc' = "done"
                   /\ outcome' = [kind |-> "State", error |-> r.error]
    /\ UNCHANGED <<calls, sql_vars>>
    /\ UNCHANGED <<script_hashes, scripts, backend_manage, args, tx_index, raw_tx,
                   challenge_context, run_result, exec_env, block_txs, state_at_call,
                   state_after_requests, state_before_tx>>

\* state.apply_deposition_requests(...)?  (the state is touched, and so can
\* fail in its storage, once per request)
ApplyDepositions(fault) ==
    /\ pc = "deposit"
    /\ fault => args.deposition_requests # <<>>
    /\ LET r == IF fault THEN StateErr(state, "Store")
                ELSE apply_deposition_requests(state, script_hashes,
                                               args.deposition_requests)
       IN  /\ log' = Append(log, Event("apply_deposition_requests", 0))
           /\ IF r.ok
              THEN /\ state' = r.state
                   /\ pc' = "loop"
                   /\ outcome' = outcome
              ELSE /\ state' = state
                   /\ pc' = "done"
                   /\ outcome' = [kind |-> "State", error |-> r.error]
           /\ state_after_requests' = state'
    /\ UNCHANGED <<calls, sql_vars>>
    /\ UNCHANGED <<script_hashes, scripts, backend_manage, args, tx_index, raw_tx,
                   challenge_context, run_result, exec_env, block_txs, state_at_call,
                   state_before_tx>>

\* a return that refuses a block without transactions
ReturnOkRefusesEmpty ==
    /\ pc = "loop"
    /\ \/ args.l2block.raw.submit_transactions = None
       \/ tx_index >= args.l2block.transactions_len
    /\ pc' = "done"
    /\ outcome' = IF args.l2block.transactions_len = 0
                  THEN [kind |-> "State", error |-> "Store"]
                  ELSE [kind |-> "Ok"]
    /\ UNCHANGED <<calls, sql_vars>>
    /\ UNCHANGED <<state, script_hashes, scripts, backend_manage, args, tx_index,
                   raw_tx, challenge_context, run_result, exec_env, block_txs, log,
                   state_at_call, state_after_requests, state_before_tx>>

\* the loop is over (or the block declares no transactions): Ok(())
ReturnOk ==
    /\ pc = "loop"
    /\ \/ args.l2block.raw.submit_transactions = None
       \/ tx_index >= args.l2block.transactions_len
    /\ pc' = "done"
    /\ outcome' = [kind |-> "Ok"]
    /\ UNCHANGED <<calls, sql_vars>>
    /\ UNCHANGED <<state, script_hashes, scripts, backend_manage, args, tx_index,
                   raw_tx, challenge_context, run_result, exec_env, block_txs, log,
                   state_at_call, state_after_requests, state_before_tx>>

\* a nonce check that puts the error of the Account State into the
\* challenge context of the transaction
CheckNonceWrapsStateError(tx, fault) ==
    /\ pc = "loop"
    /\ args.l2block.raw.submit_transactions # None
    /\ tx_index < args.l2block.transactions_len
    /\ LET raw_block == args.l2block.raw
           block_info == get_block_info(raw_block)
           block_hash == RawBlockHash(raw_block)
           ctx == StartChallenge(block_hash, block_info.number, tx_index)
           expected_nonce == get_nonce(state, tx.from_id)
           actual_nonce == tx.nonce
       IN  /\ raw_tx' = Some(tx)
           /\ block_txs' = Append(block_txs, tx)
           /\ challenge_context' = Some(ctx)
           /\ state_before_tx' = state
           /\ log' = Append(log, Event("get_nonce", tx_index))
           /\ IF fault
              THEN /\ pc' = "done"
                   /\ outcome' = [kind |-> "Transaction", context |-> ctx,
                                  error |-> [type |-> "State", error |-> "Store"]]
              ELSE IF actual_nonce # expected_nonce
              THEN /\ pc' = "done"
                   /\ outcome' = [kind |-> "Transaction", context |-> ctx,
                                  error |-> NonceError(expected_nonce, actual_nonce)]
              ELSE /\ pc' = "exec"
                   /\ outcome' = outcome
    /\ run_result' = None
    /\ exec_env' = None
    /\ UNCHANGED <<calls, sql_vars>>
    /\ UNCHANGED <<state, script_hashes, scripts, backend_manage, args, tx_index,
                   state_at_call, state_after_requests>>

\* a loop over the transactions of the body that does not ask whether the
\* raw block declares any
CheckNonceOfUndeclared(tx, fault) ==
    /\ pc = "loop"
    /\ tx_index < args.l2block.transactions_len
    /\ LET raw_block == args.l2block.raw
           block_info == get_block_info(raw_block)
           block_hash == RawBlockHash(raw_block)
           ctx == StartChallenge(block_hash, block_info.number, tx_index)
           expected_nonce == get_nonce(state, tx.from_id)
           actual_nonce == tx.nonce
       IN  /\ raw_tx' = Some(tx)
           /\ block_txs' = Append(block_txs, tx)
           /\ challenge_context' = Some(ctx)
           /\ state_before_tx' = state
           /\ log' = Append(log, Event("get_nonce", tx_index))
           /\ IF fault
              THEN /\ pc' = "done"
                   /\ outcome' = [kind |-> "State", error |-> "Store"]
              ELSE IF actual_nonce # expected_nonce
              THEN /\ pc' = "done"
                   /\ outcome' = [kind |-> "Transaction", context |-> ctx,
                                  error |-> NonceError(expected_nonce, actual_nonce)]
              ELSE /\ pc' = "exec"
                   /\ outcome' = outcome
    /\ run_result' = None
    /\ exec_env' = None
    /\ UNCHANGED <<calls, sql_vars>>
    /\ UNCHANGED <<state, script_hashes, scripts, backend_manage, args, tx_index,
                   state_at_call, state_after_requests>>

\* the loop reaches the transaction tx at tx_index: build the challenge
\* context and check the nonce
CheckNonce(tx, fault) ==
    /\ pc = "loop"
    /\ args.l2block.raw.submit_transactions # None
    /\ tx_index < args.l2block.transactions_len
    /\ LET raw_block == args.l2block.raw
           block_info == get_block_info(raw_block)
           block_hash == RawBlockHash(raw_block)
           ctx == StartChallenge(block_hash, block_info.number, tx_index)
           expected_nonce == get_nonce(state, tx.from_id)
           actual_nonce == tx.nonce
       IN  /\ raw_tx' = Some(tx)
           /\ block_txs' = Append(block_txs, tx)
           /\ challenge_context' = Some(ctx)
           /\ state_before_tx' = state
           /\ log' = Append(log, Event("get_nonce", tx_index))
           /\ IF fault
              THEN /\ pc' = "done"
                   /\ outcome' = [kind |-> "State", error |-> "Store"]
              ELSE IF actual_nonce # expected_nonce
              THEN /\ pc' = "done"
                   /\ outcome' = [kind |-> "Transaction", context |-> ctx,
                                  error |-> NonceError(expected_nonce, actual_nonce)]
              ELSE /\ pc' = "exec"
                   /\ outcome' = outcome
    /\ run_result' = None
    /\ exec_env' = None
    /\ UNCHANGED <<calls, sql_vars>>
    /\ UNCHANGED <<state, script_hashes, scripts, backend_manage, args, tx_index,
                   state_at_call, state_after_requests>>

\* an execution that registers a backend for a code hash it did not find
ExecuteTxRegistersBackend(env) ==
    /\ pc = "exec"
    /\ LET r == execute(state, script_hashes, scripts, backend_manage,
                        get_block_info(args.l2block.raw), Unwrap(raw_tx), env)
       IN  /\ log' = Append(log, Event("execute", tx_index))
           /\ exec_env' = Some(env)
           /\ run_result' = r.run_result
           /\ backend_manage' =
                 IF r.kind = "Err" /\ Unwrap(r.error).type = "Backend"
                 THEN [h \in CodeHashes |->
                          [code_hash |-> h, generator |-> "sudt_generator"]]
                 ELSE backend_manage
           /\ CASE r.kind = "Ok" ->
                     /\ pc' = "commit"
                     /\ outcome' = outcome
                [] r.kind = "Err" ->
                     /\ pc' = "done"
                     /\ outcome' = [kind |-> "Transaction",
                                    context |-> Unwrap(challenge_context),
                                    error |-> Unwrap(r.error)]
                [] OTHER ->
                     /\ pc' = "done"
                     /\ outcome' = [kind |-> "Panic"]
    /\ UNCHANGED <<calls, sql_vars>>
    /\ UNCHANGED <<state, script_hashes, scripts, args, tx_index,
                   raw_tx, challenge_context, block_txs, state_at_call,
                   state_after_requests, state_before_tx>>

\* self.execute(state, &block_info, &raw_tx) inside the loop
ExecuteTx(env) ==
    /\ pc = "exec"
    /\ LET r == execute(state, script_hashes, scripts, backend_manage,
                        get_block_info(args.l2block.raw), Unwrap(raw_tx), env)
       IN  /\ log' = Append(log, Event("execute", tx_index))
           /\ exec_env' = Some(env)
           /\ run_result' = r.run_result
           /\ CASE r.kind = "Ok" ->
                     /\ pc' = "commit"
                     /\ outcome' = outcome
                [] r.kind = "Err" ->
                     /\ pc' = "done"
                     /\ outcome' = [kind |-> "Transaction",
                                    context |-> Unwrap(challenge_context),
                                    error |-> Unwrap(r.error)]
                [] OTHER ->
                     /\ pc' = "done"
                     /\ outcome' = [kind |-> "Panic"]
    /\ UNCHANGED <<calls, sql_vars>>
    /\ UNCHANGED <<state, script_hashes, scripts, backend_manage, args, tx_index,
                   raw_tx, challenge_context, block_txs, state_at_call,
                   state_after_requests, state_before_tx>>

\* a commit after which the loop does not move on to the next transaction
CommitKeepsIndex(fault) ==
    /\ pc = "commit"
    /\ log' = Append(log, Event("apply_run_result", tx_index))
    /\ IF fault
       THEN /\ pc' = "done"
            /\ outcome' = [kind |-> "State", error |-> "Store"]
            /\ UNCHANGED <<state, tx_index, exec_env>>
       ELSE /\ state' = apply_run_result(state, Unwrap(run_result))
            /\ tx_index' = tx_index
            /\ pc' = "loop"
            /\ outcome' = outcome
            /\ exec_env' = None
    /\ UNCHANGED <<calls, sql_vars>>
    /\ UNCHANGED <<script_hashes, scripts, backend_manage, args, raw_tx,
                   challenge_context, run_result, block_txs, state_at_call,
                   state_after_requests, state_before_tx>>

\* state.apply_run_result(&run_result)?
Commit(fault) ==
    /\ pc = "commit"
    /\ log' = Append(log, Event("apply_run_result", tx_index))
    /\ IF fault
       THEN /\ pc' = "done"
            /\ outcome' = [kind |-> "State", error |-> "Store"]
            /\ UNCHANGED <<state, tx_index, exec_env>>
       ELSE /\ state' = apply_run_result(state, Unwrap(run_result))
            /\ tx_index' = tx_index + 1
            /\ pc' = "loop"
            /\ outcome' = outcome
            /\ exec_env' = None
    /\ UNCHANGED <<calls, sql_vars>>
    /\ UNCHANGED <<script_hashes, scripts, backend_manage, args, raw_tx,
                   challenge_context, run_result, block_txs, state_at_call,
                   state_after_requests, state_before_tx>>

(* ---------------------------------------------------------------------- *)
(* execute called on its own (a dry run by a mem-pool style caller)        *)
(* ---------------------------------------------------------------------- *)
CallExecute(tx) ==
    /\ pc = "idle"
    /\ calls < MaxCalls
    /\ pc' = "dry"
    /\ raw_tx' = Some(tx)
    /\ state_at_call' = state
    /\ state_before_tx' = state
    /\ UNCHANGED <<calls, sql_vars>>
    /\ UNCHANGED <<state, script_hashes, scripts, backend_manage, args, tx_index,
                   challenge_context, run_result, exec_env, outcome, block_txs, log,
                   state_after_requests>>

\* a dry run whose stores reach the Account State
ExecuteDryWritesThrough(env) ==
    /\ pc = "dry"
    /\ LET r == execute(state, script_hashes, scripts, backend_manage,
                        get_block_info(args.l2block.raw), Unwrap(raw_tx), env)
       IN  /\ exec_env' = Some(env)
           /\ run_result' = r.run_result
           /\ pc' = "done"
           /\ state' = IF r.kind = "Ok"
                       THEN apply_run_result(state, Unwrap(r.run_result))
                       ELSE state
           /\ outcome' = IF r.kind = "Err"
                         THEN [kind |-> "Executed", result |-> r.kind,
                               error |-> Unwrap(r.error)]
                         ELSE [kind |-> "Executed", result |-> r.kind]
    /\ UNCHANGED <<calls, sql_vars>>
    /\ UNCHANGED <<script_hashes, scripts, backend_manage, args, tx_index,
                   raw_tx, challenge_context, block_txs, log, state_at_call,
                   state_after_requests, state_before_tx>>

\* execute(state, &block_info, &raw_tx) of the dry run
ExecuteDry(env) ==
    /\ pc = "dry"
    /\ LET r == execute(state, script_hashes, scripts, backend_manage,
                        get_block_info(args.l2block.raw), Unwrap(raw_tx), env)
       IN  /\ exec_env' = Some(env)
           /\ run_result' = r.run_result
           /\ pc' = "done"
           /\ outcome' = IF r.kind = "Err"
                         THEN [kind |-> "Executed", result |-> r.kind,
                               error |-> Unwrap(r.error)]
                         ELSE [kind |-> "Executed", result |-> r.kind]
    /\ UNCHANGED <<calls, sql_vars>>
    /\ UNCHANGED <<state, script_hashes, scripts, backend_manage, args, tx_index,
                   raw_tx, challenge_context, block_txs, log, state_at_call,
                   state_after_requests, state_before_tx>>

Next ==
    \/ \E a \in StateTransitionArgs : Call(a)
    \/ \E fault \in BOOLEAN : ApplyWithdrawals(fault)
    \/ \E fault \in BOOLEAN : ApplyDepositions(fault)
    \/ ReturnOk
    \/ \E tx \in RawL2Transactions, fault \in BOOLEAN : CheckNonce(tx, fault)
    \/ pc = "exec" /\ \E env \in ExecEnvs(state, Unwrap(raw_tx)) : ExecuteTx(env)
    \/ \E fault \in BOOLEAN : Commit(fault)
    \/ \E tx \in RawL2Transactions : CallExecute(tx)
    \/ pc = "dry" /\ \E env \in ExecEnvs(state, Unwrap(raw_tx)) : ExecuteDry(env)

Spec == Init /\ [][Next]_vars

(* ---------------------------------------------------------------------- *)
(* Calls on one Generator, one after the other                             *)
(* ---------------------------------------------------------------------- *)
\* the call returns to its caller, with a value or by the unwinding of a
\* panic that the caller catches: its locals are dropped, the Account State
\* stays with the caller and the Generator (&self) is as it was. A process
\* that a panic ends takes no step after it.
Return ==
    /\ pc = "done"
    /\ calls' = calls + 1
    /\ pc' = "idle"
    /\ args' = NoArgs
    /\ tx_index' = 0
    /\ raw_tx' = None
    /\ challenge_context' = None
    /\ run_result' = None
    /\ exec_env' = None
    /\ outcome' = NoOutcome
    /\ block_txs' = <<>>
    /\ log' = <<>>
    /\ state_at_call' = state
    /\ state_after_requests' = state
    /\ state_before_tx' = state
    /\ UNCHANGED sql_vars
    /\ UNCHANGED <<state, script_hashes, scripts, backend_manage>>

\* the calls of a sequence: blocks of at most one transaction, programs of
\* at most one storage access
SeqArgs == {a \in StateTransitionArgs : a.l2block.transactions_len <= 1}

SeqEnvs(st, tx) == {env \in ExecEnvs(st, tx) : Len(env.ops) <= 1}

NextSeq ==
    \/ \E a \in SeqArgs : Call(a)
    \/ \E fault \in BOOLEAN : ApplyWithdrawals(fault)
    \/ \E fault \in BOOLEAN : ApplyDepositions(fault)
    \/ ReturnOk
    \/ \E tx \in RawL2Transactions, fault \in BOOLEAN : CheckNonce(tx, fault)
    \/ pc = "exec" /\ \E env \in SeqEnvs(state, Unwrap(raw_tx)) : ExecuteTx(env)
    \/ \E fault \in BOOLEAN : Commit(fault)
    \/ \E tx \in RawL2Transactions : CallExecute(tx)
    \/ pc = "dry" /\ \E env \in SeqEnvs(state, Unwrap(raw_tx)) : ExecuteDry(env)
    \/ Return

SpecSeq == Init /\ [][NextSeq]_vars

(* ---------------------------------------------------------------------- *)
(* insert_to_sql (readonly-node/src/web3/sql_indexer.rs)                   *)
(* Each await on the database is one step of the calling task. The SELECT  *)
(* goes to the pool and sees the committed rows; the INSERTs go to the     *)
(* task's own database transaction and reach the tables at its commit; a   *)
(* transaction dropped before its commit is rolled back.                   *)
(* ---------------------------------------------------------------------- *)
\* the task p ends its call with result r; its open transaction, if any, is
\* dropped; ended_at keeps the step the call ended in
Finish(p, r) ==
    [proc EXCEPT ![p].pc = "done", ![p].result = r,
                 ![p].ended_at = proc[p].pc,
                 ![p].tx_blocks = <<>>, ![p].tx_transactions = <<>>]

\* a task calls insert_to_sql(pool, chain, l1_transaction): extract_l2_block
SqlCall(p, l1_transaction) ==
    /\ proc[p].pc = "idle"
    /\ sql_calls < MaxSqlCalls
    /\ sql_calls' = sql_calls + 1
    /\ LET e == extract_l2_block(l1_transaction)
           started == [IdleTask EXCEPT !.l2_block = e.l2_block,
                                       !.blocks_at_call = blocks,
                                       !.transactions_at_call = transactions]
       IN  proc' = [proc EXCEPT ![p] =
                       IF e.ok THEN [started EXCEPT !.pc = "select"]
                       ELSE [started EXCEPT !.pc = "done", !.result = "Err"]]
    /\ UNCHANGED <<blocks, transactions>>
    /\ UNCHANGED gen_vars

\* SELECT number FROM blocks ORDER BY number DESC LIMIT 1 ... .await?
SqlSelect(p, fault) ==
    /\ proc[p].pc = "select"
    /\ proc' = IF fault THEN Finish(p, "Err")
               ELSE [proc EXCEPT ![p].pc = "guard",
                                 ![p].row = SelectHighest(blocks)]
    /\ UNCHANGED <<blocks, transactions, sql_calls>>
    /\ UNCHANGED gen_vars

\* the test row.is_none() || number == (row.unwrap().0 + 1) as u64: the sum
\* is an i64 sum, which at i64::MAX panics in a build with overflow checks
\* and wraps in one without
Admits(row, number, overflow_checks) ==
    IF row = None THEN "yes"
    ELSE IF Unwrap(row) = I64Max /\ overflow_checks THEN "panic"
    ELSE IF number = WrappingIncAsU64(Unwrap(row)) THEN "yes"
    ELSE "no"

\* if row.is_none() || ... { filter_web3_transactions(..)?;
\* build_web3_block(..)?; pool.begin().await?; ... } Ok(())
SqlGuard(p, overflow_checks, fault) ==
    /\ proc[p].pc = "guard"
    /\ LET me == proc[p]
           admitted == Admits(me.row, me.l2_block.raw.number, overflow_checks)
           filtered == filter_web3_transactions(me.l2_block)
           built == build_web3_block(me.l2_block, filtered.web3_transactions)
       IN  proc' =
              CASE admitted = "panic" -> Finish(p, "Panic")
                [] admitted = "no" -> Finish(p, "Ok")
                [] OTHER ->
                      IF filtered.status # "Ok" THEN Finish(p, filtered.status)
                      ELSE IF built.status # "Ok" THEN Finish(p, built.status)
                      ELSE IF fault THEN Finish(p, "Err")
                      ELSE [proc EXCEPT
                               ![p].pc = "insert_block",
                               ![p].web3_transactions = filtered.web3_transactions]
    /\ UNCHANGED <<blocks, transactions, sql_calls>>
    /\ UNCHANGED gen_vars

\* INSERT INTO blocks executed on the pool instead of the transaction
SqlInsertBlockOnPool(p, fault) ==
    /\ proc[p].pc = "insert_block"
    /\ LET me == proc[p]
           web3_block == build_web3_block(me.l2_block, me.web3_transactions).web3_block
       IN  IF fault
           THEN /\ proc' = Finish(p, "Err")
                /\ UNCHANGED blocks
           ELSE /\ blocks' = Append(blocks, web3_block)
                /\ proc' = [proc EXCEPT
                               ![p].pc = IF me.web3_transactions = <<>>
                                         THEN "commit" ELSE "insert_tx"]
    /\ UNCHANGED <<transactions, sql_calls>>
    /\ UNCHANGED gen_vars

\* INSERT INTO blocks ... .execute(&mut tx).await?
SqlInsertBlock(p, fault) ==
    /\ proc[p].pc = "insert_block"
    /\ LET me == proc[p]
           web3_block == build_web3_block(me.l2_block, me.web3_transactions).web3_block
       IN  proc' =
              IF fault THEN Finish(p, "Err")
              ELSE [proc EXCEPT
                       ![p].tx_blocks = Append(me.tx_blocks, web3_block),
                       ![p].pc = IF me.web3_transactions = <<>>
                                 THEN "commit" ELSE "insert_tx"]
    /\ UNCHANGED <<blocks, transactions, sql_calls>>
    /\ UNCHANGED gen_vars

\* one pass of for web3_tx in web3_transactions { INSERT INTO transactions
\* ... .execute(&mut tx).await?; }
SqlInsertTx(p, fault) ==
    /\ proc[p].pc = "insert_tx"
    /\ LET me == proc[p]
           web3_tx == Head(me.web3_transactions)
           rest == Tail(me.web3_transactions)
       IN  proc' =
              IF fault THEN Finish(p, "Err")
              ELSE [proc EXCEPT
                       ![p].tx_transactions = Append(me.tx_transactions, web3_tx),
                       ![p].web3_transactions = rest,
                       ![p].pc = IF rest = <<>> THEN "commit" ELSE "insert_tx"]
    /\ UNCHANGED <<blocks, transactions, sql_calls>>
    /\ UNCHANGED gen_vars

\* tx.commit().await.unwrap() and Ok(())
SqlCommit(p, fault) ==
    /\ proc[p].pc = "commit"
    /\ IF fault
       THEN /\ proc' = Finish(p, "Panic")
            /\ UNCHANGED <<blocks, transactions>>
       ELSE /\ blocks' = blocks \o proc[p].tx_blocks
            /\ transactions' = transactions \o proc[p].tx_transactions
            /\ proc' = Finish(p, "Ok")
    /\ UNCHANGED sql_calls
    /\ UNCHANGED gen_vars

\* the call has returned to the task, with a value or by the unwinding of
\* a panic that the caller catches; the task may call again
SqlReturn(p) ==
    /\ proc[p].pc = "done"
    /\ proc' = [proc EXCEPT ![p] = IdleTask]
    /\ UNCHANGED <<blocks, transactions, sql_calls>>
    /\ UNCHANGED gen_vars

\* calls of insert_to_sql by one task, each started after the one before
\* has returned
NextSqlSeq ==
    \/ \E l1 \in L1Transactions : SqlCall(1, l1)
    \/ \E fault \in BOOLEAN : SqlSelect(1, fault)
    \/ \E checks \in BOOLEAN, fault \in BOOLEAN : SqlGuard(1, checks, fault)
    \/ \E fault \in BOOLEAN : SqlInsertBlock(1, fault)
    \/ \E fault \in BOOLEAN : SqlInsertTx(1, fault)
    \/ \E fault \in BOOLEAN : SqlCommit(1, fault)
    \/ SqlReturn(1)

SpecSqlSeq == Init /\ [][NextSqlSeq]_vars

\* the layer-1 transactions two tasks race with: blocks of the first two
\* numbers, with and without a transaction that becomes a row
RacingL1Transactions ==
    {l1 \in L1Transactions :
        /\ l1.witnesses # <<>>
        /\ l1.witnesses[1].output_type # None
        /\ LET l2_block == Unwrap(l1.witnesses[1].output_type)
           IN  /\ l2_block.raw.number \in {Num64(0), Num64(1)}
               /\ TimestampInRange(l2_block.raw.timestamp)
               /\ l2_block.transactions \in {<<>>, <<L2Tx(0, 2, 0, "call")>>}}

\* calls of insert_to_sql by tasks that run side by side on the one pool
NextSql ==
    \/ \E p \in Tasks, l1 \in RacingL1Transactions : SqlCall(p, l1)
    \/ \E p \in Tasks, fault \in BOOLEAN : SqlSelect(p, fault)
    \/ \E p \in Tasks, checks \in BOOLEAN, fault \in BOOLEAN :
          SqlGuard(p, checks, fault)
    \/ \E p \in Tasks, fault \in BOOLEAN : SqlInsertBlock(p, fault)
    \/ \E p \in Tasks, fault \in BOOLEAN : SqlInsertTx(p, fault)
    \/ \E p \in Tasks, fault \in BOOLEAN : SqlCommit(p, fault)
    \/ \E p \in Tasks : SqlReturn(p)

SpecSql == Init /\ [][NextSql]_vars


(* ---------------------------------------------------------------------- *)
(* Properties                                                              *)
(* ---------------------------------------------------------------------- *)
HasEvent(op, i) == \E n \in DOMAIN log : log[n] = Event(op, i)

CurTx == Unwrap(raw_tx)

CurEnv == Unwrap(exec_env)

NonceKey(id) == <<id, "nonce">>

\* the account has no script, a script that is not of the data type, or a
\* code hash the registry does not hold
NoBackendFor(id) ==
    LET h == script_hashes[id] IN
    \/ h \notin DOMAIN scripts
    \/ scripts[h].hash_type # "Data"
    \/ scripts[h].code_hash \notin DOMAIN backend_manage

\* new = old + 1 as numbers below 2^32
IsSuccessor(new, old) ==
    \/ new[1] = old[1] /\ new[2] = old[2] + 1
    \/ new[1] = old[1] + 1 /\ new[2] = 0 /\ old[2] = LimbMax

\* C1: when apply_state_transition returns the error of a failed transaction
\* k, no write of a transaction before k remains in the Account State: the
\* state is the one the transaction loop started from.
C1_AtomicBlockApplication ==
    (pc = "done" /\ outcome.kind = "Transaction") => state = state_after_requests

Rank(op) ==
    CASE op = "apply_withdrawal_requests" -> 0
      [] op = "apply_deposition_requests" -> 1
      [] OTHER -> 2

\* C2: in every call the withdrawals are applied first, the depositions
\* second, and every nonce check, execution and commit of a transaction
\* comes after both; the state the transactions start from is the state at
\* the call with all withdrawals and then all depositions applied.
C2_RequestsBeforeTransactions ==
    /\ \A i, j \in DOMAIN log :
          i < j => (Rank(log[i].op) < Rank(log[j].op) \/ Rank(log[j].op) = 2)
    /\ \A i \in DOMAIN log :
          Rank(log[i].op) >= 1 => log[1].op = "apply_withdrawal_requests"
    /\ \A i \in DOMAIN log :
          Rank(log[i].op) = 2 =>
             Len(log) >= 2 /\ log[2].op = "apply_deposition_requests"
    /\ pc \in {"loop", "exec", "commit"} =>
          LET w == apply_withdrawal_requests(state_at_call, script_hashes,
                                             args.withdrawal_requests)
              d == apply_deposition_requests(w.state, script_hashes,
                                             args.deposition_requests)
          IN  w.ok /\ d.ok /\ state_after_requests = d.state

C2_Witness ==
    /\ pc = "done"
    /\ outcome.kind = "Ok"
    /\ args.withdrawal_requests # <<>>
    /\ args.deposition_requests # <<>>
    /\ HasEvent("apply_run_result", 0)

\* C3: a successful execution leaves (pre-execution nonce of the sender) + 1
\* at the sender's nonce cell of the write set, and once that RunResult is
\* committed the sender's nonce is its nonce before the transaction plus 1.
C3_NonceMonotonicity ==
    /\ (run_result # None /\ pc \in {"commit", "done"}) =>
          LET key == NonceKey(CurTx.from_id)
              w == Unwrap(run_result).write_values
          IN  /\ key \in DOMAIN w
              /\ w[key].rest = 0
              /\ IsSuccessor(w[key].w0, state_before_tx[key].w0)
    /\ (pc = "loop" /\ tx_index > 0) =>
          IsSuccessor(state[NonceKey(CurTx.from_id)].w0,
                      state_before_tx[NonceKey(CurTx.from_id)].w0)

\* C4: a transaction whose nonce differs from the sender's nonce in the
\* state at the moment the loop reaches it ends the call with a Nonce error
\* (expected = the state's nonce, actual = the transaction's) and the
\* challenge context of that transaction (block hash, block number, its
\* index); it is not executed and the Account State is as it was.
C4_NonceMismatch ==
    (/\ raw_tx # None
     /\ pc # "dry"
     /\ outcome.kind \notin {"Executed", "State"}
     /\ CurTx.nonce # state_before_tx[NonceKey(CurTx.from_id)].w0) =>
        /\ pc = "done"
        /\ outcome.kind = "Transaction"
        /\ outcome.error = [type |-> "Nonce",
                            expected |-> state_before_tx[NonceKey(CurTx.from_id)].w0,
                            actual |-> CurTx.nonce]
        /\ outcome.context = [block_hash |-> <<"hash", args.l2block.raw>>,
                              block_number |-> args.l2block.raw.number,
                              tx_index |-> Len(block_txs) - 1]
        /\ tx_index = Len(block_txs) - 1
        /\ ~HasEvent("execute", tx_index)
        /\ run_result = None
        /\ state = state_before_tx

C4_Witness ==
    /\ pc = "done"
    /\ outcome.kind = "Transaction"
    /\ outcome.error.type = "Nonce"
    /\ tx_index = 1
    /\ outcome.error.expected = U32One
    /\ outcome.error.actual = U32Zero

\* C5: a step of execute, inside the loop or as a dry run and whether it
\* returns a RunResult or an error, leaves the Account State as it was; past
\* the requests the state changes only in the step that applies the
\* returned RunResult.
C5_ExecuteIsDryRun ==
    [][/\ (pc \in {"exec", "dry"} => state' = state)
       /\ ((state' # state /\ pc \notin {"withdraw", "deposit"}) =>
              /\ pc = "commit"
              /\ run_result # None
              /\ \A k \in Keys :
                    state'[k] = IF k \in DOMAIN Unwrap(run_result).write_values
                                THEN Unwrap(run_result).write_values[k]
                                ELSE state[k])]_vars

C5_Witness ==
    /\ pc = "done"
    /\ outcome.kind = "Executed"
    /\ outcome.result = "Ok"
    /\ <<0, "slot">> \in DOMAIN Unwrap(run_result).write_values
    /\ Unwrap(run_result).write_values[<<0, "slot">>] # state[<<0, "slot">>]
    /\ state = state_at_call

\* C7: when the call fails on a transaction, the challenge context carries
\* the index k the loop stopped at, for a nonce failure and an execution
\* failure alike; every transaction before k was nonce-checked, executed and
\* committed, k itself was not committed, and nothing past k was touched.
C7_FirstOffendingTransaction ==
    (pc = "done" /\ outcome.kind = "Transaction") =>
        LET k == outcome.context.tx_index IN
        /\ k = tx_index
        /\ k = Len(block_txs) - 1
        /\ outcome.context = [block_hash |-> <<"hash", args.l2block.raw>>,
                              block_number |-> args.l2block.raw.number,
                              tx_index |-> k]
        /\ \A i \in 0..(k - 1) :
              /\ HasEvent("get_nonce", i)
              /\ HasEvent("execute", i)
              /\ HasEvent("apply_run_result", i)
        /\ \A n \in DOMAIN log : log[n].tx_index <= k
        /\ ~HasEvent("apply_run_result", k)
        /\ HasEvent("get_nonce", k)
        /\ IF outcome.error.type = "Nonce"
           THEN /\ ~HasEvent("execute", k)
                /\ CurTx.nonce # state[NonceKey(CurTx.from_id)].w0
           ELSE /\ log[Len(log)] = Event("execute", k)
                /\ CurTx.nonce = state[NonceKey(CurTx.from_id)].w0

C7_Witness ==
    /\ pc = "done"
    /\ outcome.kind = "Transaction"
    /\ outcome.error.type = "InvalidExitCode"
    /\ outcome.context.tx_index = 1
    /\ HasEvent("apply_run_result", 0)

\* the registries that can be built over the known code hashes
Registries ==
    {[h \in reg |-> [code_hash |-> h, generator |-> "sudt_generator"]] :
        reg \in SUBSET CodeHashes}

\* C8: an account whose script is not of the data hash type resolves to no
\* backend, whatever its code hash and whatever the registry holds; so does
\* an account that has no script for its script hash.
C8_NonDataNeverResolves ==
    \A id \in AccountIds :
        LET h == script_hashes[id] IN
        (h \notin DOMAIN scripts \/ scripts[h].hash_type # "Data") =>
            /\ load_backend(script_hashes, scripts, backend_manage, id) = None
            /\ \A bm \in Registries :
                  load_backend(script_hashes, scripts, bm, id) = None

C8_Witness ==
    /\ pc = "done"
    /\ outcome.kind = "Transaction"
    /\ outcome.error.type = "Backend"
    /\ scripts[script_hashes[CurTx.to_id]].hash_type = "Type"
    /\ scripts[script_hashes[CurTx.to_id]].code_hash \in DOMAIN backend_manage

\* C9: execute on a transaction whose receiver resolves to no backend
\* returns a Backend error naming the receiver (to_id); inside the loop the
\* error comes with the challenge context of that transaction, and the
\* Account State, the sender's nonce included, is as it was before it.
C9_MissingBackend ==
    (/\ pc = "done"
     /\ exec_env # None
     /\ NoBackendFor(CurTx.to_id)
     /\ CurEnv.state_error # "get_script_hash") =>
        /\ run_result = None
        /\ state = state_before_tx
        /\ outcome.kind \in {"Transaction", "Executed"}
        /\ outcome.error = [type |-> "Backend", account_id |-> CurTx.to_id]
        /\ outcome.kind = "Transaction" =>
              /\ outcome.context = Unwrap(challenge_context)
              /\ outcome.context.tx_index = tx_index
        /\ outcome.kind = "Executed" => outcome.result = "Err"

C9_Witness ==
    /\ pc = "done"
    /\ outcome.kind = "Transaction"
    /\ outcome.error.type = "Backend"
    /\ outcome.error.account_id = 1
    /\ CurTx.from_id = 0
    /\ tx_index = 1

\* C10: a run that exits with a non-zero status or traps makes execute
\* return an error (InvalidExitCode with that status for a non-zero exit)
\* and no RunResult; the nonce step is not reached, nothing is committed and
\* the sender's nonce stays as it was.
C10_FailedRun ==
    /\ (/\ pc = "done"
        /\ exec_env # None
        /\ ~NoBackendFor(CurTx.to_id)
        /\ CurEnv.state_error # "get_script_hash"
        /\ \/ CurEnv.exit # 0
           \/ CurEnv.vm_error
           \/ RunProgram(state_before_tx, CurTx, CurEnv.ops, RunResultDefault).trap) =>
           /\ run_result = None
           /\ outcome.kind \in {"Transaction", "Executed"}
           /\ outcome.error.type \in {"InvalidExitCode", "VM"}
           /\ outcome.error.type = "InvalidExitCode" =>
                 /\ CurEnv.exit # 0
                 /\ outcome.error = [type |-> "InvalidExitCode", code |-> CurEnv.exit]
           /\ outcome.error.type = "VM" =>
                 \/ CurEnv.vm_error
                 \/ RunProgram(state_before_tx, CurTx, CurEnv.ops, RunResultDefault).trap
           /\ outcome.kind = "Transaction" => ~HasEvent("apply_run_result", tx_index)
           /\ state = state_before_tx
    /\ (pc = "commit" =>
           /\ CurEnv.exit = 0
           /\ ~CurEnv.vm_error
           /\ ~RunProgram(state_before_tx, CurTx, CurEnv.ops, RunResultDefault).trap)

C10_Witness ==
    /\ pc = "done"
    /\ outcome.kind = "Transaction"
    /\ outcome.error.type = "InvalidExitCode"
    /\ outcome.error.code = -1
    /\ CurEnv.ops # <<>>
    /\ state[NonceKey(CurTx.from_id)] = state_before_tx[NonceKey(CurTx.from_id)]

\* the transactions the loop has committed so far, in block order
\* (block_txs[n] is the transaction at index n - 1)
Committed == 1..tx_index

\* n and m are two transactions of one sender with none of that sender between
NextOfSameSender(n, m) ==
    /\ n < m
    /\ block_txs[n].from_id = block_txs[m].from_id
    /\ \A k \in (n + 1)..(m - 1) : block_txs[k].from_id # block_txs[n].from_id

\* C11: the nonce check and the execution of the transaction at index i
\* run on the Account State with the RunResults of the transactions 0..i-1
\* committed; so of two transactions of one sender in a block that both get
\* through (with none of that sender between them), the later one carries
\* the earlier one's nonce plus 1.
C11_SequentialVisibility ==
    /\ (pc \in {"exec", "commit"} /\ raw_tx # None) =>
          /\ state_before_tx = state
          /\ CurTx.nonce = state[NonceKey(CurTx.from_id)].w0
          /\ \A n \in Committed :
                \/ block_txs[n].from_id # CurTx.from_id
                \/ \E m \in Committed :
                      m > n /\ block_txs[m].from_id = CurTx.from_id
                \/ IsSuccessor(CurTx.nonce, block_txs[n].nonce)
          /\ (\A n \in Committed : block_txs[n].from_id # CurTx.from_id) =>
                CurTx.nonce = state_after_requests[NonceKey(CurTx.from_id)].w0
    /\ \A n, m \in Committed :
          NextOfSameSender(n, m) =>
             IsSuccessor(block_txs[m].nonce, block_txs[n].nonce)

\* the journal the program run of the current transaction handed to the
\* nonce step
ProgramJournal ==
    RunProgram(state_before_tx, CurTx, CurEnv.ops, RunResultDefault).result

\* execute has returned a RunResult for the current transaction (inside the
\* loop it waits for its commit, in a dry run it is the answer)
Returned ==
    /\ pc \in {"commit", "done"}
    /\ exec_env # None
    /\ run_result # None

\* the stores of ops, replayed in order on the journal rr: each finds its
\* key in the read set or the write set journaled up to then
RECURSIVE WritesExplained(_, _, _)
WritesExplained(st, ops, rr) ==
    IF ops = <<>> THEN TRUE
    ELSE LET op == Head(ops) IN
         IF op.kind = "store"
         THEN /\ \/ op.key \in DOMAIN rr.read_values
                 \/ op.key \in DOMAIN rr.write_values
              /\ WritesExplained(st, Tail(ops), sys_store(rr, op.key, op.value))
         ELSE WritesExplained(st, Tail(ops), sys_load(st, rr, op.key))

\* C12: in every RunResult execute returns, each written key was in the read
\* set or written earlier in the journal at the time of its write: the
\* stores of the program in their order, and then the nonce write, which
\* finds the sender's nonce cell in the read set.
C12_ReadWriteCompleteness ==
    Returned =>
        /\ WritesExplained(state_before_tx, CurEnv.ops, RunResultDefault)
        /\ NonceKey(CurTx.from_id) \in DOMAIN Unwrap(run_result).read_values
        /\ NonceKey(CurTx.from_id) \in DOMAIN Unwrap(run_result).write_values

\* C13: a transaction of a sender whose nonce is the largest u32 does not
\* end with a RunResult that holds the wrapped value 0 at the sender's nonce
\* cell of the write set.
C13_NonceOverflow ==
    (/\ pc \in {"commit", "done"}
     /\ exec_env # None
     /\ state_before_tx[NonceKey(CurTx.from_id)].w0 = U32Max
     /\ run_result # None) =>
        LET w == Unwrap(run_result).write_values IN
        \/ NonceKey(CurTx.from_id) \notin DOMAIN w
        \/ w[NonceKey(CurTx.from_id)] # H256_from_u32(U32Zero)

\* the state belongs to a call of apply_state_transition
InCall ==
    \/ pc \in {"withdraw", "deposit", "loop", "exec", "commit"}
    \/ pc = "done" /\ outcome.kind # "Executed"

\* C14: a call on a block without transactions and with no deposit and no
\* withdrawal request returns Ok and the Account State is the one of the
\* call, at the return and at every step before it.
C14_EmptyBlock ==
    (/\ InCall
     /\ args.l2block.transactions_len = 0
     /\ args.deposition_requests = <<>>
     /\ args.withdrawal_requests = <<>>) =>
        /\ state = state_at_call
        /\ pc \notin {"exec", "commit"}
        /\ block_txs = <<>>
        /\ pc = "done" => outcome = [kind |-> "Ok"]

C14_Witness ==
    /\ pc = "done"
    /\ outcome.kind = "Ok"
    /\ args.l2block.raw.submit_transactions = Some([tx_count |-> 0])
    /\ args.l2block.transactions_len = 0
    /\ args.deposition_requests = <<>>
    /\ args.withdrawal_requests = <<>>
    /\ Len(log) = 2
    /\ state = state_at_call

\* C15: in a RunResult execute returns, the write set holds (the sender's
\* nonce in the Account State) + 1 at the sender's nonce cell, whatever the
\* program stored there; every other entry of the write set and every entry
\* of the read set that the run produced is as the run left it, and the
\* nonce step adds no key but the nonce cell.
C15_UnconditionalNonceWrite ==
    Returned =>
        LET key == NonceKey(CurTx.from_id)
            run == ProgramJournal
            rr == Unwrap(run_result)
        IN  /\ key \in DOMAIN rr.write_values
            /\ rr.write_values[key].rest = 0
            /\ IsSuccessor(rr.write_values[key].w0, state_before_tx[key].w0)
            /\ DOMAIN rr.write_values = DOMAIN run.write_values \cup {key}
            /\ \A k \in DOMAIN run.write_values \ {key} :
                  rr.write_values[k] = run.write_values[k]
            /\ DOMAIN rr.read_values = DOMAIN run.read_values \cup {key}
            /\ \A k \in DOMAIN run.read_values :
                  rr.read_values[k] = run.read_values[k]

\* C16: in a RunResult execute returns, the read set's entry for the
\* sender's nonce cell is the pre-execution nonce when the run did not read
\* the cell, and the value the run recorded when it did; either way it is
\* the sender's nonce in the Account State before the transaction.
C16_ReadSetSeeding ==
    Returned =>
        LET key == NonceKey(CurTx.from_id)
            run == ProgramJournal
            rr == Unwrap(run_result)
        IN  /\ key \in DOMAIN rr.read_values
            /\ key \notin DOMAIN run.read_values =>
                  rr.read_values[key] =
                     H256_from_u32(get_nonce(state_before_tx, CurTx.from_id))
            /\ key \in DOMAIN run.read_values =>
                  rr.read_values[key] = run.read_values[key]
            /\ rr.read_values[key] = state_before_tx[key]

\* the call has returned the error of the withdrawals / of the depositions
WithdrawalsFailed ==
    /\ pc = "done"
    /\ outcome.kind = "State"
    /\ log # <<>>
    /\ log[Len(log)].op = "apply_withdrawal_requests"

DepositionsFailed ==
    /\ pc = "done"
    /\ outcome.kind = "State"
    /\ log # <<>>
    /\ log[Len(log)].op = "apply_deposition_requests"

NoTransactionTouched ==
    /\ block_txs = <<>>
    /\ tx_index = 0
    /\ raw_tx = None
    /\ run_result = None
    /\ \A n \in DOMAIN log : Rank(log[n].op) < 2

\* C17: withdrawals that fail end the call with their error, with no
\* deposit applied and no transaction touched; depositions that fail end
\* the call with their error and no transaction touched; each of the two
\* steps is taken at most once in a call.
C17_RequestFailureAborts ==
    /\ (/\ InCall
        /\ pc # "withdraw"
        /\ ~apply_withdrawal_requests(state_at_call, script_hashes,
                                      args.withdrawal_requests).ok) =>
           /\ WithdrawalsFailed
           /\ outcome.error \in
                 {apply_withdrawal_requests(state_at_call, script_hashes,
                                            args.withdrawal_requests).error,
                  "Store"}
    /\ WithdrawalsFailed =>
           /\ log = <<Event("apply_withdrawal_requests", 0)>>
           /\ NoTransactionTouched
           /\ \A id \in AccountIds :
                 H256_to_u128(state[<<id, "balance">>]) <=
                    H256_to_u128(state_at_call[<<id, "balance">>])
    /\ DepositionsFailed =>
           /\ log = <<Event("apply_withdrawal_requests", 0),
                      Event("apply_deposition_requests", 0)>>
           /\ NoTransactionTouched
    /\ \A i, j \in DOMAIN log :
           (i < j /\ Rank(log[i].op) < 2) => log[i].op # log[j].op

C17_Witness ==
    /\ WithdrawalsFailed
    /\ outcome.error = "AmountOverflow"
    /\ args.deposition_requests # <<>>
    /\ args.l2block.transactions_len > 0
    /\ args.l2block.raw.submit_transactions # None

\* the place of a step inside the processing of one transaction
StepRank(op) ==
    CASE op = "get_nonce" -> 0
      [] op = "execute" -> 1
      [] OTHER -> 2

\* C18: no transaction is nonce-checked, executed or committed twice, the
\* steps go in ascending index order and, for one index, nonce check, then
\* execution, then commit, so the commit of i comes before the nonce check
\* of i+1; a call that returns Ok on a block that declares transactions has
\* taken exactly these three steps for every transaction of the block.
C18_ExactlyOnceInOrder ==
    /\ \A i, j \in DOMAIN log : i < j => log[i] # log[j]
    /\ \A i, j \in DOMAIN log :
          (i < j /\ Rank(log[i].op) = 2) =>
             \/ log[i].tx_index < log[j].tx_index
             \/ /\ log[i].tx_index = log[j].tx_index
                /\ StepRank(log[i].op) < StepRank(log[j].op)
    /\ \A j \in DOMAIN log :
          (log[j].op = "get_nonce" /\ log[j].tx_index > 0) =>
             /\ j > 1
             /\ log[j - 1] = Event("apply_run_result", log[j].tx_index - 1)
    /\ (/\ pc = "done"
        /\ outcome.kind = "Ok"
        /\ args.l2block.raw.submit_transactions # None) =>
           LET n == args.l2block.transactions_len IN
           /\ Len(log) = 2 + 3 * n
           /\ Len(block_txs) = n
           /\ tx_index = n
           /\ \A i \in 0..(n - 1) :
                 /\ log[3 + 3 * i] = Event("get_nonce", i)
                 /\ log[4 + 3 * i] = Event("execute", i)
                 /\ log[5 + 3 * i] = Event("apply_run_result", i)

C18_Witness ==
    /\ pc = "done"
    /\ outcome.kind = "Ok"
    /\ args.l2block.raw.submit_transactions # None
    /\ args.l2block.transactions_len = 2
    /\ log[6] = Event("get_nonce", 1)
    /\ log[8] = Event("apply_run_result", 1)

\* the cells the program of the current transaction loaded / stored
LoadedKeys == {CurEnv.ops[n].key : n \in {m \in DOMAIN CurEnv.ops : CurEnv.ops[m].kind = "load"}}

StoredKeys == {CurEnv.ops[n].key : n \in {m \in DOMAIN CurEnv.ops : CurEnv.ops[m].kind = "store"}}

\* C19: the RunResult execute returns for a transaction holds the reads and
\* writes of that transaction's run and its nonce update and nothing else,
\* whatever earlier transactions journaled; a RunResult is committed at
\* most once.
C19_FreshJournal ==
    /\ Returned =>
          LET key == NonceKey(CurTx.from_id)
              rr == Unwrap(run_result)
          IN  /\ DOMAIN rr.read_values = LoadedKeys \cup {key}
              /\ DOMAIN rr.write_values = StoredKeys \cup {key}
              /\ \A k \in StoredKeys \ {key} : rr.write_values[k] = ProgValue
              /\ \A k \in LoadedKeys \ StoredKeys :
                    rr.read_values[k] = state_before_tx[k]
    /\ \A i, j \in DOMAIN log :
          (i < j /\ log[i].op = "apply_run_result") =>
             /\ log[j] # log[i]
             /\ log[j].tx_index > log[i].tx_index

C19_Witness ==
    /\ pc = "commit"
    /\ tx_index = 1
    /\ Returned
    /\ state[<<0, "slot">>] = ProgValue
    /\ block_txs[1].to_id = 0
    /\ <<0, "slot">> \notin DOMAIN Unwrap(run_result).write_values
    /\ <<0, "slot">> \notin DOMAIN Unwrap(run_result).read_values

\* the call ended in the nonce check / in the commit of the transaction at
\* tx_index (a commit that succeeds moves tx_index on)
EndedInNonceCheck ==
    /\ pc = "done"
    /\ log # <<>>
    /\ log[Len(log)] = Event("get_nonce", tx_index)

EndedInCommit ==
    /\ pc = "done"
    /\ log # <<>>
    /\ log[Len(log)] = Event("apply_run_result", tx_index)

\* C20: a call that ends in the nonce check of a transaction whose nonce
\* matches, or in a commit, ended on an error of the Account State; such a
\* call returns that error bare, with no challenge context around it, and
\* the transaction it stopped at is the last one the loop reached.
C20_StateErrorsSurfaceAsIs ==
    /\ (EndedInNonceCheck /\ CurTx.nonce = state[NonceKey(CurTx.from_id)].w0) =>
          outcome = [kind |-> "State", error |-> "Store"]
    /\ EndedInNonceCheck =>
          /\ outcome.kind \in {"State", "Transaction"}
          /\ outcome.kind = "Transaction" => outcome.error.type = "Nonce"
    /\ EndedInCommit =>
          outcome = [kind |-> "State", error |-> "Store"]
    /\ ((EndedInNonceCheck \/ EndedInCommit) /\ outcome.kind = "State") =>
          /\ outcome = [kind |-> "State", error |-> "Store"]
          /\ Len(block_txs) = tx_index + 1
          /\ \A n \in DOMAIN log : log[n].tx_index <= tx_index
          /\ state = state_before_tx

C20_Witness ==
    /\ EndedInCommit
    /\ outcome = [kind |-> "State", error |-> "Store"]
    /\ tx_index = 0
    /\ args.l2block.transactions_len = 2
    /\ run_result # None

\* C21: no step of any call in a sequence of apply_state_transition and
\* execute calls changes the backend registry, so every code hash resolves
\* to the backend (or to none) it resolved to when the Generator was built;
\* between two calls nothing of the earlier call is left but the registry
\* and the caller's Account State.
C21_RegistryImmutable ==
    /\ [](\A h \in CodeHashes :
             get_backend(backend_manage, h) = get_backend(InitBackends, h))
    /\ [][backend_manage' = backend_manage]_vars
    /\ [](pc = "idle" =>
             /\ raw_tx = None
             /\ challenge_context = None
             /\ run_result = None
             /\ exec_env = None
             /\ tx_index = 0
             /\ block_txs = <<>>)

C21_Witness ==
    /\ calls = 1
    /\ pc = "commit"
    /\ CurTx.to_id = 0
    /\ state_at_call[NonceKey(0)].w0 = U32One
    /\ load_backend(script_hashes, scripts, backend_manage, 0) # None

\* C22: a call on a block whose raw part declares no transactions applies
\* the withdrawals and the depositions and returns Ok (or the error of a
\* request step); whatever the body carries, no transaction is
\* nonce-checked, executed or committed and every account keeps its nonce.
C22_NoDeclaredTransactions ==
    (InCall /\ args.l2block.raw.submit_transactions = None) =>
        /\ pc \notin {"exec", "commit"}
        /\ NoTransactionTouched
        /\ \A id \in AccountIds : state[NonceKey(id)] = state_at_call[NonceKey(id)]
        /\ pc = "done" =>
              \/ WithdrawalsFailed
              \/ DepositionsFailed
              \/ /\ outcome = [kind |-> "Ok"]
                 /\ log = <<Event("apply_withdrawal_requests", 0),
                            Event("apply_deposition_requests", 0)>>
                 /\ LET w == apply_withdrawal_requests(state_at_call, script_hashes,
                                                       args.withdrawal_requests)
                        d == apply_deposition_requests(w.state, script_hashes,
                                                       args.deposition_requests)
                    IN  w.ok /\ d.ok /\ state = d.state

C22_Witness ==
    /\ pc = "done"
    /\ outcome = [kind |-> "Ok"]
    /\ args.l2block.raw.submit_transactions = None
    /\ args.l2block.transactions_len = 2
    /\ args.deposition_requests # <<>>
    /\ args.withdrawal_requests # <<>>
    /\ Len(log) = 2

\* the rows a call of insert_to_sql on l2_block writes when it goes through
BlockRowOf(l2_block) ==
    [number |-> l2_block.raw.number,
     hash |-> <<"blake2b", l2_block.raw>>,
     timestamp |-> l2_block.raw.timestamp,
     miner |-> l2_block.raw.aggregator_id]

\* the highest block number stored when task p made its call, and whether
\* the block of the call is the one the table waits for
HighestAtCall(p) == SelectHighest(proc[p].blocks_at_call)

Awaited(p) ==
    \/ HighestAtCall(p) = None
    \/ proc[p].l2_block.raw.number = WrappingIncAsU64(Unwrap(HighestAtCall(p)))

TablesAsAtCall(p) ==
    /\ blocks = proc[p].blocks_at_call
    /\ transactions = proc[p].transactions_at_call

\* C23: in calls made one after the other, a call changes the tables only
\* for a block whose number is the highest stored number + 1 (or for any
\* block when the table is empty), and then by that block's row; a call that
\* read the highest number and carries any other number returns Ok with
\* both tables as they were; the stored numbers are consecutive, without
\* gap and without duplicate.
C23_Contiguity ==
    /\ (proc[1].pc # "idle" /\ ~TablesAsAtCall(1)) =>
          /\ Awaited(1)
          /\ blocks = Append(proc[1].blocks_at_call, BlockRowOf(proc[1].l2_block))
    /\ (proc[1].pc = "done" /\ proc[1].row # None /\ ~Awaited(1)) =>
          /\ proc[1].result = "Ok"
          /\ TablesAsAtCall(1)
    /\ \A i \in 1..(Len(blocks) - 1) :
          blocks[i + 1].number = WrappingIncAsU64(blocks[i].number)
    /\ \A i, j \in DOMAIN blocks : i # j => blocks[i].number # blocks[j].number

\* the transaction rows a call on l2_block writes when it goes through
TxRowsOf(l2_block) == filter_web3_transactions(l2_block).web3_transactions

\* the call of task p ended in an INSERT that failed
InsertFailed(p) ==
    /\ proc[p].pc = "done"
    /\ proc[p].ended_at \in {"insert_block", "insert_tx"}

\* C24: the block row and the block's transaction rows are written in one
\* database transaction: nothing reaches the tables while the call is under
\* way, a call that ended in a failed INSERT returns an error with both
\* tables as they were at the call, and a call that changed the tables
\* returned Ok and added the block row together with all of the block's
\* transaction rows.
C24_Atomicity ==
    /\ proc[1].pc \notin {"idle", "done"} => TablesAsAtCall(1)
    /\ InsertFailed(1) =>
          /\ proc[1].result = "Err"
          /\ TablesAsAtCall(1)
    /\ (proc[1].pc = "done" /\ ~TablesAsAtCall(1)) =>
          /\ proc[1].result = "Ok"
          /\ blocks = Append(proc[1].blocks_at_call, BlockRowOf(proc[1].l2_block))
          /\ transactions =
                proc[1].transactions_at_call \o TxRowsOf(proc[1].l2_block)

\* the INSERT of the second transaction row failed, after the block row and
\* the first transaction row were written to the transaction, in a call on
\* a table that already holds a block
C24_Witness ==
    /\ InsertFailed(1)
    /\ proc[1].ended_at = "insert_tx"
    /\ Len(TxRowsOf(proc[1].l2_block)) = 2
    /\ Len(proc[1].web3_transactions) = 1
    /\ proc[1].blocks_at_call # <<>>
    /\ proc[1].result = "Err"
    /\ TablesAsAtCall(1)

\* C25: with two calls of insert_to_sql running side by side, the blocks
\* table never holds two rows of one number.
C25_NoDuplicateUnderInterleaving ==
    \A i, j \in DOMAIN blocks : i # j => blocks[i].number # blocks[j].number

====
